---- MODULE Spec2Model ----
(***************************************************************************)
(* A model of the OSDU MCP server's two stateful components:               *)
(*                                                                         *)
(*   - OsduClient (shared/osdu_client.py): the pooled HTTP session and the *)
(*     retry loop of _make_request;                                        *)
(*   - AuthHandler (shared/auth_handler.py): mode detection, credential    *)
(*     initialisation and token acquisition per mode.                      *)
(*                                                                         *)
(* Spec     is the client: one caller issuing requests one after another   *)
(*          while the owner may close the client at any suspension point.  *)
(* SpecAuth is the credential provider: construction from an environment,  *)
(*          get_access_token calls, the clock and later environment edits. *)
(* SpecCancel and SpecLive are the client with cancellation of the calling *)
(*          task, and with every step of a call terminating.               *)
(* SpecDetect, SpecTeardown, SpecTool and SpecRace are the construction of *)
(*          the provider, the release of both components, one tool         *)
(*          invocation, and tasks calling get_access_token concurrently.   *)
(*                                                                         *)
(* Time is counted in minutes.  Libraries the repository calls (aiohttp,   *)
(* PyJWT, the cloud SDKs) are represented by the set of outcomes they can  *)
(* give at the call site.                                                  *)
(***************************************************************************)
EXTENDS Integers, Sequences, FiniteSets, TLC

VARIABLES
    \* ---- OsduClient ----
    session,          \* self._session: "none" | "open" | "closed"
    sessionsCreated,  \* number of ClientSession objects constructed
    pc,               \* where the current _make_request call is
    attempt,          \* the loop variable of `for attempt in range(max_retries)`
    head,             \* status of the response being read (pc = "body")
    log,              \* outcome of every attempt of the current call, in order
    sleeps,           \* delay of every asyncio.sleep of the current call, in order
    result,           \* what the current call returned or raised
    calls,            \* number of _make_request calls started
    data_partition,   \* self._data_partition, from the configuration
    callerHeaders,    \* the headers the caller passed to the current call
    headersPassed,    \* the caller passed a headers mapping (it may be empty)
    callersMapping,   \* what the mapping object the caller holds contains now
    headers,          \* kwargs["headers"] of the current call
    bearer,           \* what get_access_token() returned to the current call
    sent,             \* the headers of every attempt handed to an open session
    sessionCloses,    \* the sessions session.close() was awaited on, in order
    closeCalls,       \* close() calls that returned since the last request started
    \* ---- the process environment ----
    env,              \* os.environ: the variables the handler reads ("" = unset or empty)
    awsProbe,         \* what boto3.Session().get_credentials() gives on this host
    gcpProbe,         \* what google.auth.default() gives on this host
    now,              \* the clock (epoch minutes)
    \* ---- AuthHandler ----
    constructed,      \* "no" | "yes" | "failed": AuthHandler(config) not run / returned / raised
    mode,             \* self.mode
    initError,        \* what __init__ raised, "" when it returned
    initOptions,      \* the setup options the message of that exception lists
    azureCached,      \* self._azure_cached_token
    awsSession,       \* self._aws_session is not None
    gcpCreds,         \* self._gcp_credentials
    apc,              \* where the current get_access_token call is
    authResult,       \* what the last get_access_token call returned or raised
    fetches,          \* number of token requests made to a backend
    tokenCalls,       \* number of get_access_token calls started
    tokenAtConstruction,  \* OSDU_MCP_USER_TOKEN when the handler was constructed
    tokenEdited,      \* OSDU_MCP_USER_TOKEN was changed after construction
    accepted,         \* the user tokens get_access_token has returned so far
    azureTrail,       \* per AZURE call, in order: "hit" (cached token), "fetch", "fail"
    authCloseCalls,   \* close() calls that returned since the last get_access_token
    validated,        \* what validate_token() gives its caller when it makes this call
    \* ---- a tool invocation ----
    tool,             \* the tool function invoked ("none": no invocation)
    write_mode,       \* os.environ OSDU_MCP_ENABLE_WRITE_MODE ("" = unset)
    delete_mode,      \* os.environ OSDU_MCP_ENABLE_DELETE_MODE ("" = unset)
    confirm,          \* the confirm argument
    dry_run,          \* the dry_run argument
    records_valid,    \* the records argument passes validate_record
    tpc,              \* where the invocation is
    toolResult,       \* what the invocation reported
    \* ---- tasks that call get_access_token() concurrently ----
    taskPc,           \* per task: where its get_access_token call is
    taskResult,       \* per task: what its last call returned or raised
    workerPc,         \* per task: where the executor thread of its backend call is
    workerGot,        \* per task: the token its backend call is for, and the expiry it got
    issued            \* the token-with-expiry values the backends have handed out

requestVars == <<callerHeaders, headersPassed, callersMapping, headers, bearer, sent>>
clientVars == <<session, sessionsCreated, pc, attempt, head, log, sleeps, result, calls,
                data_partition, requestVars, sessionCloses, closeCalls>>
envVars == <<env, awsProbe, gcpProbe, now>>
authVars == <<constructed, mode, initError, initOptions, azureCached, awsSession, gcpCreds, apc,
              authResult, fetches, tokenCalls, tokenAtConstruction, tokenEdited, accepted,
              azureTrail, authCloseCalls, validated>>
toolVars == <<tool, write_mode, delete_mode, confirm, dry_run, records_valid, tpc, toolResult>>
raceVars == <<taskPc, taskResult, workerPc, workerGot, issued>>

----------------------------------------------------------------------------
(* Bounds of the model *)

MaxCalls == 2
MaxCloses == 2

(* Program constants *)

max_retries == 3
base_delay == 1
NoStatus == 0          \* status_code = None

(* Inputs: what the upstream can answer *)

Statuses == {200, 399, 400, 503}
\* Bodies: one that is a JSON document and one that is not
BodyTexts == {"{}", "done"}
ParsesAsJson(t) == t = "{}"
\* The Content-Type the response declares
ContentTypes == {"application/json", "text/plain"}
\* What happens while the body of a received response is read:
\*   ok           - the body arrives
\*   ClientError  - the read fails and an aiohttp.ClientError (payload error,
\*                  connection closed) leaves the try block
\*   TimeoutError - the total timeout expires during the read and
\*                  asyncio.TimeoutError leaves the try block
Deliveries == {"ok", "ClientError", "TimeoutError"}

\* aiohttp's response.json(): ContentTypeError unless the declared type is
\* application/json, then json.loads of the body
response_json(ctype, t) ==
    IF ctype # "application/json" THEN "ContentTypeError"
    ELSE IF ParsesAsJson(t) THEN "parsed" ELSE "JSONDecodeError"
\* What awaiting session.request() gives before a status line is received:
\*   ClientError  - DNS failure, refused or reset connection, disconnect
\*   TimeoutError - ClientTimeout(total=...) expired: asyncio.TimeoutError,
\*                  which is not an aiohttp.ClientError
HeadFailures == {"ClientError", "TimeoutError"}

NoResult == [kind |-> "none", status |-> NoStatus, label |-> "", text |-> ""]

(* Inputs: the configuration, the provider's tokens, the caller's headers *)

Partitions == {"opendes", "other"}
ProviderTokens == {"tok1", "tok2"}
NoTokenYet == ""

HeaderNames == {"Authorization", "data-partition-id", "Content-Type", "Accept"}
Absent == "<absent>"
\* The value a caller gives a header when it supplies it
CallerValue(name) ==
    CASE name = "Authorization"     -> "Bearer caller"
      [] name = "data-partition-id" -> "callers-partition"
      [] name = "Content-Type"      -> "text/plain"
      [] OTHER                      -> "text/html"
\* kwargs.get("headers", {}): each header supplied by the caller or not
CallerHeaderMaps ==
    {[n \in HeaderNames |-> IF n \in S THEN CallerValue(n) ELSE Absent] :
        S \in SUBSET HeaderNames}
NoHeaders == [n \in HeaderNames |-> Absent]

Entry(kind, st, read, text) ==
    [kind |-> kind, status |-> st, read |-> read, text |-> text]

----------------------------------------------------------------------------
(* OsduClient *)

\* _ensure_session: a new ClientSession when there is none or it is closed
_ensure_session_once(s) == s = "none"
_ensure_session_creates(s) == s = "none" \/ s = "closed"

\* line 86: if response.status >= 400
IsHttpErrorOff(st) == st > 400
IsHttpError(st) == st >= 400

\* line 100: except aiohttp.ClientError
IsClientErrorWide(excType) == excType \in {"ClientError", "TimeoutError"}
IsClientError(excType) == excType = "ClientError"

\* line 101: if attempt == max_retries - 1
IsLastAttemptOff(a) == a = max_retries
IsLastAttempt(a) == a = max_retries - 1

RECURSIVE Pow2(_)
Pow2(n) == IF n = 0 THEN 1 ELSE 2 * Pow2(n - 1)

\* line 105: delay = base_delay * (2**attempt)
BackoffDelayLinear(a) == base_delay * (2 * a)
BackoffDelay(a) == base_delay * Pow2(a)

\* lines 84-98: the positions of the call that are inside the try block; the
\* token is acquired at line 73, before the loop
InsideTryFromToken(p) == p \in {"token", "send", "inflight", "body"}
InsideTry(p) == p \in {"send", "inflight", "body"}

\* line 108: except Exception.  asyncio.CancelledError derives from
\* BaseException, not from Exception
IsExceptionAny(excType) == TRUE
IsException(excType) == excType # "CancelledError"

\* line 109: if "OSMCPAPIError" in str(type(e))
IsApiErrorByName(excType) == excType = "OSMCPAPIError"

Raised(kind, st, label, text) ==
    /\ result' = [kind |-> kind, status |-> st, label |-> label, text |-> text]
    /\ pc' = "done"
    /\ sleeps' = sleeps

\* lines 100-111: the two except clauses of the retry loop, for an exception
\* of type excType raised inside the try block
ExceptClauses(excType, st, text) ==
    IF IsClientError(excType)
    THEN IF IsLastAttempt(attempt)
         THEN Raised("OSMCPConnectionError", NoStatus, "Connection error: ", text)
         ELSE /\ sleeps' = Append(sleeps, BackoffDelay(attempt))
              /\ pc' = "sleep"
              /\ result' = result
    ELSE IF ~IsException(excType)
         THEN Raised(excType, NoStatus, "", text)
    ELSE IF IsApiErrorByName(excType)
         THEN Raised("OSMCPAPIError", st, "Request failed: ", text)
         ELSE Raised("OSMCPAPIError", NoStatus, "Unexpected error: ", text)

\* lines 72-76: the three item assignments on the headers mapping
SetHeadersDefault(h, tok, partition) ==
    [n \in HeaderNames |->
        IF h[n] # Absent THEN h[n]
        ELSE CASE n = "Authorization"     -> "Bearer " \o tok
               [] n = "data-partition-id" -> partition
               [] n = "Content-Type"      -> "application/json"
               [] OTHER                   -> h[n]]
SetHeaders(h, tok, partition) ==
    [n \in HeaderNames |->
        CASE n = "Authorization"     -> "Bearer " \o tok
          [] n = "data-partition-id" -> partition
          [] n = "Content-Type"      -> "application/json"
          [] OTHER                   -> h[n]]

\* line 71: headers = kwargs.get("headers", {}) is the caller's own mapping
\* object when the caller passed one, a new mapping otherwise
kwargs_get_copies(passed) == FALSE
kwargs_get_is_callers(passed) == passed

\* lines 67-71: the call starts; _ensure_session() runs without suspending
\* and kwargs.get("headers", {}) takes the caller's mapping, one of H; a
\* caller with nothing to put in it passes an empty mapping or none (E)
StartRequestFrom(H, E) ==
    /\ pc \in {"idle", "done"}
    /\ calls < MaxCalls
    /\ calls' = calls + 1
    /\ IF _ensure_session_creates(session)
       THEN /\ session' = "open"
            /\ sessionsCreated' = sessionsCreated + 1
       ELSE UNCHANGED <<session, sessionsCreated>>
    /\ pc' = "token"
    /\ attempt' = 0
    /\ head' = NoStatus
    /\ log' = <<>>
    /\ sleeps' = <<>>
    /\ result' = NoResult
    /\ \E h \in H :
          /\ callerHeaders' = h
          /\ callersMapping' = h
          /\ headersPassed' \in (IF h = NoHeaders THEN E ELSE {TRUE})
          /\ headers' = h
    /\ bearer' = NoTokenYet
    /\ sent' = <<>>
    /\ closeCalls' = 0
    /\ UNCHANGED <<data_partition, sessionCloses>>
    /\ UNCHANGED <<envVars, authVars, toolVars, raceVars>>

StartRequestWith(H) == StartRequestFrom(H, {FALSE})

StartRequest == StartRequestFrom(CallerHeaderMaps, BOOLEAN)

\* lines 72-77: get_access_token() returned; the headers are set
TokenReturned ==
    /\ pc = "token"
    /\ pc' = "send"
    /\ \E t \in ProviderTokens :
          /\ bearer' = t
          /\ headers' = SetHeaders(headers, t, data_partition)
    /\ callersMapping' = IF kwargs_get_is_callers(headersPassed)
                         THEN headers' ELSE callersMapping
    /\ UNCHANGED <<session, sessionsCreated, attempt, head, log, sleeps, result, calls>>
    /\ UNCHANGED <<data_partition, callerHeaders, headersPassed, sent, sessionCloses,
                   closeCalls>>
    /\ UNCHANGED <<envVars, authVars, toolVars, raceVars>>

\* line 73: get_access_token() raised OSMCPAuthError, outside the try block
TokenFailed ==
    /\ pc = "token"
    /\ IF InsideTry(pc)
       THEN ExceptClauses("OSMCPAuthError", NoStatus, "")
       ELSE Raised("OSMCPAuthError", NoStatus, "", "")
    /\ UNCHANGED <<session, sessionsCreated, attempt, head, log, calls>>
    /\ UNCHANGED <<data_partition, requestVars, sessionCloses, closeCalls>>
    /\ UNCHANGED <<envVars, authVars, toolVars, raceVars>>

\* line 85: session.request(...) is entered.  On a closed session aiohttp
\* raises RuntimeError("Session is closed") before anything is sent.
SendAttempt ==
    /\ pc = "send"
    /\ IF session = "open"
       THEN /\ pc' = "inflight"
            /\ sent' = Append(sent, headers)
            /\ UNCHANGED <<log, sleeps, result>>
       ELSE /\ log' = Append(log, Entry("RuntimeError", NoStatus, "none", ""))
            /\ ExceptClauses("RuntimeError", NoStatus, "Session is closed")
            /\ sent' = sent
    /\ UNCHANGED <<session, sessionsCreated, attempt, head, calls>>
    /\ UNCHANGED <<data_partition, callerHeaders, headersPassed, callersMapping, headers,
                   bearer, sessionCloses, closeCalls>>
    /\ UNCHANGED <<envVars, authVars, toolVars, raceVars>>

\* line 85: the attempt fails before a status line is received
AttemptFails ==
    /\ pc = "inflight"
    /\ \E e \in HeadFailures :
          /\ log' = Append(log, Entry(e, NoStatus, "none", ""))
          /\ ExceptClauses(e, NoStatus, "")
    /\ UNCHANGED <<session, sessionsCreated, attempt, head, calls>>
    /\ UNCHANGED <<data_partition, requestVars, sessionCloses, closeCalls>>
    /\ UNCHANGED <<envVars, authVars, toolVars, raceVars>>

\* line 85: a status line is received
ResponseHead ==
    /\ pc = "inflight"
    /\ \E st \in Statuses : head' = st
    /\ pc' = "body"
    /\ UNCHANGED <<session, sessionsCreated, attempt, log, sleeps, result, calls>>
    /\ UNCHANGED <<data_partition, requestVars, sessionCloses, closeCalls>>
    /\ UNCHANGED <<envVars, authVars, toolVars, raceVars>>

\* lines 86-98: what reading the body gives: the delivery failure; "text"
\* when response.text() gave the text (error status, or response.json()
\* raised); "json" when response.json() returned
ReadOutcome(st, d, ctype, t) ==
    IF d # "ok" THEN d
    ELSE IF IsHttpError(st) THEN "text"
    ELSE IF response_json(ctype, t) = "parsed" THEN "json"
    ELSE "text"

\* lines 86-98: the body is read; an error status raises OSMCPAPIError, a
\* success status returns the parsed JSON or {"response": text}
ReadBody ==
    /\ pc = "body"
    /\ \E d \in Deliveries, ctype \in ContentTypes, t \in BodyTexts :
          LET r == ReadOutcome(head, d, ctype, t)
              text == IF d = "ok" THEN t ELSE ""
          IN  /\ log' = Append(log, Entry("Response", head, r, text))
              /\ IF r \in {"ClientError", "TimeoutError"}
                 THEN ExceptClauses(r, NoStatus, "")
                 ELSE IF IsHttpError(head)
                      THEN ExceptClauses("OSMCPAPIError", head, text)
                      ELSE /\ result' = [kind |-> "return", status |-> head,
                                         label |-> IF r = "json" THEN "json" ELSE "response",
                                         text |-> text]
                           /\ pc' = "done"
                           /\ sleeps' = sleeps
    /\ head' = NoStatus
    /\ UNCHANGED <<session, sessionsCreated, attempt, calls>>
    /\ UNCHANGED <<data_partition, requestVars, sessionCloses, closeCalls>>
    /\ UNCHANGED <<envVars, authVars, toolVars, raceVars>>

\* lines 83-85: where an iteration of the for loop starts: at the try block,
\* with the headers set before the loop
IterationStartsAtToken(a) == "token"
IterationStartsAt(a) == "send"

\* line 106 returns and the for loop takes its next value; line 113 when the
\* range is exhausted
WakeUp ==
    /\ pc = "sleep"
    /\ IF attempt + 1 < max_retries
       THEN /\ attempt' = attempt + 1
            /\ pc' = IterationStartsAt(attempt + 1)
            /\ UNCHANGED <<sleeps, result>>
       ELSE /\ Raised("OSMCPConnectionError", NoStatus,
                      "Maximum retry attempts reached without success", "")
            /\ attempt' = attempt
    /\ UNCHANGED <<session, sessionsCreated, head, log, calls>>
    /\ UNCHANGED <<data_partition, requestVars, sessionCloses, closeCalls>>
    /\ UNCHANGED <<envVars, authVars, toolVars, raceVars>>

\* The task that awaits _make_request is cancelled: asyncio.CancelledError
\* is raised at the await the call is suspended in.  Lines 85-98 are inside
\* the try block; line 73 is before it and line 106 is inside an except
\* clause, where no except clause of the same try applies.  The attempt in
\* flight is abandoned; the session is not touched.
Cancel ==
    /\ pc \in {"token", "inflight", "body", "sleep"}
    /\ IF InsideTry(pc)
       THEN ExceptClauses("CancelledError", NoStatus, "")
       ELSE Raised("CancelledError", NoStatus, "", "")
    /\ head' = NoStatus
    /\ UNCHANGED <<session, sessionsCreated, attempt, log, calls>>
    /\ UNCHANGED <<data_partition, requestVars, sessionCloses, closeCalls>>
    /\ UNCHANGED <<envVars, authVars, toolVars, raceVars>>

\* line 169: if self._session and not self._session.closed
ShouldCloseAlways(s) == s # "none"
ShouldClose(s) == s = "open"

\* lines 167-170: close(), called by the owner of the client
Close ==
    /\ closeCalls < MaxCloses
    /\ closeCalls' = closeCalls + 1
    /\ IF ShouldClose(session)
       THEN /\ session' = "closed"
            /\ sessionCloses' = Append(sessionCloses, sessionsCreated)
       ELSE UNCHANGED <<session, sessionCloses>>
    /\ UNCHANGED <<sessionsCreated, pc, attempt, head, log, sleeps, result, calls>>
    /\ UNCHANGED <<data_partition, requestVars>>
    /\ UNCHANGED <<envVars, authVars, toolVars, raceVars>>

----------------------------------------------------------------------------
(* The environment of AuthHandler *)

Truthy(v) == v # ""

\* OSDU_MCP_USER_TOKEN values: what jwt.decode(verify_signature=False,
\* verify_exp=False) makes of each (exp in epoch minutes)
UserTokens == {"jwt_noexp", "jwt_exp2", "jwt_exp_text", "not_a_jwt"}
JwtDecode(token) ==
    CASE token = "jwt_noexp"    -> [ok |-> TRUE,  has_exp |-> FALSE, numeric |-> TRUE,  exp |-> 0]
      [] token = "jwt_exp2"     -> [ok |-> TRUE,  has_exp |-> TRUE,  numeric |-> TRUE,  exp |-> 2]
      [] token = "jwt_exp_text" -> [ok |-> TRUE,  has_exp |-> TRUE,  numeric |-> FALSE, exp |-> 0]
      [] OTHER                  -> [ok |-> FALSE, has_exp |-> FALSE, numeric |-> TRUE,  exp |-> 0]

ProbeOutcomes == {"credentials", "none", "raises"}

Envs ==
    [user_token : UserTokens \cup {""}, client_id : {"", "cid"}, tenant_id : {"", "tid"},
     aws_key : {"", "key"}, aws_profile : {"", "profile"}, gcp_path : {"", "path"}]

\* The environments the token lifecycle is explored from
AuthEnvs == {e \in Envs : e.aws_profile = ""}

\* How far the clock runs, and the host's time zone: the UTC offset is
\* DstShift minutes until the instant DstEnd and 0 from then on
MaxTime == 6
DstEnd == 3
DstShift == 7
MaxTokenCalls == 3

utcoffset(t) == IF t < DstEnd THEN DstShift ELSE 0
\* datetime.fromtimestamp(ts): the naive local reading of an epoch instant
fromtimestamp(ts) == ts + utcoffset(ts)
\* datetime.now(): the naive local reading of the clock
datetime_now(t) == t + utcoffset(t)

\* Lifetimes of the tokens a backend hands out (minutes)
TokenLifetimes == {2, 7}

NoToken == [present |-> FALSE, token |-> 0, expires_on |-> 0]
NoAuthResult == [kind |-> "none", msg |-> "", token |-> "", serial |-> 0]
Returned(token, serial) == [kind |-> "return", msg |-> "", token |-> token, serial |-> serial]
AuthFailure(kind, msg) == [kind |-> kind, msg |-> msg, token |-> "", serial |-> 0]

----------------------------------------------------------------------------
(* AuthHandler *)

\* lines 100-158: _detect_authentication_mode
_detect_swapped(e, aws, gcp) ==
    IF Truthy(e.user_token) THEN "USER_TOKEN"
    ELSE IF Truthy(e.client_id) \/ Truthy(e.tenant_id) THEN "AZURE"
    ELSE IF Truthy(e.gcp_path) THEN "GCP"
    ELSE IF Truthy(e.aws_key) \/ Truthy(e.aws_profile) THEN "AWS"
    ELSE IF aws = "credentials" THEN "AWS"
    ELSE IF gcp = "credentials" THEN "GCP"
    ELSE "OSMCPAuthError"
_detect_default_aws(e, aws, gcp) ==
    IF Truthy(e.user_token) THEN "USER_TOKEN"
    ELSE IF Truthy(e.client_id) \/ Truthy(e.tenant_id) THEN "AZURE"
    ELSE IF Truthy(e.aws_key) \/ Truthy(e.aws_profile) THEN "AWS"
    ELSE IF Truthy(e.gcp_path) THEN "GCP"
    ELSE IF gcp = "credentials" THEN "GCP"
    ELSE "AWS"
_detect_authentication_mode(e, aws, gcp) ==
    IF Truthy(e.user_token) THEN "USER_TOKEN"
    ELSE IF Truthy(e.client_id) \/ Truthy(e.tenant_id) THEN "AZURE"
    ELSE IF Truthy(e.aws_key) \/ Truthy(e.aws_profile) THEN "AWS"
    ELSE IF Truthy(e.gcp_path) THEN "GCP"
    ELSE IF aws = "credentials" THEN "AWS"
    ELSE IF gcp = "credentials" THEN "GCP"
    ELSE "OSMCPAuthError"

\* lines 144-158: the sections of the message raised when nothing is found
NoCredentialsOptions == {"Manual Token", "Azure", "AWS", "GCP"}

\* lines 211-252: what _initialize_aws_credential meets, given what
\* get_credentials() gives on this host
AwsInitOutcomes(probe) ==
    IF probe = "credentials" THEN {"ok", "StsError"}
    ELSE IF probe = "none" THEN {"NoCredentialsError"}
    ELSE {"ProfileNotFound", "ImportError"}

\* lines 265-295: what _initialize_gcp_credential meets
GcpInitOutcomes(probe) ==
    IF probe = "credentials" THEN {"ok"}
    ELSE {"DefaultCredentialsError", "ImportError"}

\* lines 160-170: _initialize_credential; the exception __init__ ends with
\* ("" when it returns).  get_caller_identity() failing is not among the
\* except clauses of _initialize_aws_credential.
InitRaises(m, outcome) ==
    IF m \in {"USER_TOKEN", "AZURE"} \/ outcome = "ok" THEN ""
    ELSE IF outcome = "StsError" THEN "BotoCoreError"
    ELSE "OSMCPAuthError"

\* lines 59-80: AuthHandler(config)
Construct ==
    /\ constructed = "no"
    /\ LET m == _detect_authentication_mode(env, awsProbe, gcpProbe)
       IN  IF m = "OSMCPAuthError"
           THEN /\ constructed' = "failed"
                /\ initError' = "OSMCPAuthError"
                /\ initOptions' = NoCredentialsOptions
                /\ UNCHANGED <<mode, awsSession, gcpCreds>>
           ELSE /\ mode' = m
                /\ \E o \in (IF m = "AWS" THEN AwsInitOutcomes(awsProbe)
                             ELSE IF m = "GCP" THEN GcpInitOutcomes(gcpProbe)
                             ELSE {"ok"}) :
                      /\ initError' = InitRaises(m, o)
                      /\ initOptions' = {}
                      /\ constructed' = IF InitRaises(m, o) = "" THEN "yes" ELSE "failed"
                      /\ awsSession' = (m = "AWS")
                      /\ gcpCreds' = IF m = "GCP" /\ o = "ok"
                                     THEN [present |-> TRUE, token |-> 0, expires_on |-> 0]
                                     ELSE gcpCreds
    /\ tokenAtConstruction' = env.user_token
    /\ UNCHANGED <<azureCached, apc, authResult, fetches, tokenCalls, tokenEdited, accepted,
                   azureTrail, authCloseCalls, validated>>
    /\ UNCHANGED <<envVars, clientVars, toolVars, raceVars>>

\* lines 355-384: _validate_jwt_token; the exception it ends with ("" when
\* it returns).  Only jwt.DecodeError is caught; `now > exp` on an exp that
\* is not a number raises TypeError.
ExpiredWithMargin(t, exp) == t > exp - 5
Expired(t, exp) == t > exp
_validate_jwt_token(token, t) ==
    LET payload == JwtDecode(token)
    IN  IF ~payload.ok THEN AuthFailure("OSMCPAuthError", "Invalid JWT token format")
        ELSE IF ~payload.has_exp THEN NoAuthResult
        ELSE IF ~payload.numeric THEN AuthFailure("TypeError", "'>' not supported")
        ELSE IF Expired(t, payload.exp) THEN AuthFailure("OSMCPAuthError", "Token has expired")
        ELSE NoAuthResult

\* lines 318-334: _get_user_token reads the environment on every call
TokenSourceConstruction(e, atConstruction) == atConstruction
TokenSource(e, atConstruction) == e.user_token

\* lines 586-592: validate_token, from the outcome r of the
\* get_access_token() call it awaits; only OSMCPAuthError is caught
validate_token(r) ==
    IF r.kind = "none" THEN "none"
    ELSE IF r.kind = "return" THEN "True"
    ELSE IF r.kind = "OSMCPAuthError" THEN "False"
    ELSE r.kind

\* lines 307-308, 318-334: get_access_token in USER_TOKEN mode
GetUserToken ==
    /\ constructed = "yes" /\ mode = "USER_TOKEN" /\ apc = "idle"
    /\ tokenCalls < MaxTokenCalls
    /\ tokenCalls' = tokenCalls + 1
    /\ LET token == TokenSource(env, tokenAtConstruction)
           v == _validate_jwt_token(token, now)
       IN  IF ~Truthy(token)
           THEN /\ authResult' = AuthFailure("OSMCPAuthError",
                                    "USER_TOKEN mode but OSDU_MCP_USER_TOKEN not set")
                /\ accepted' = accepted
           ELSE IF v.kind # "none"
           THEN /\ authResult' = v
                /\ accepted' = accepted
           ELSE /\ authResult' = Returned(token, 0)
                /\ accepted' = accepted \cup {token}
    /\ UNCHANGED <<constructed, mode, initError, initOptions, azureCached, awsSession, gcpCreds, apc,
                   fetches, tokenAtConstruction, tokenEdited, azureTrail>>
    /\ authCloseCalls' = 0
    /\ validated' = validate_token(authResult')
    /\ UNCHANGED <<envVars, clientVars, toolVars, raceVars>>

\* line 604: expiry_buffer = timedelta(minutes=5)
expiry_buffer == 5

\* lines 594-606: _is_azure_token_valid
_is_azure_token_valid_nobuffer(cached, t) ==
    /\ cached.present
    /\ datetime_now(t) < fromtimestamp(cached.expires_on)
_is_azure_token_valid(cached, t) ==
    /\ cached.present
    /\ datetime_now(t) < fromtimestamp(cached.expires_on) - expiry_buffer

\* line 415: what self._azure_credential.get_token(scope) gives
AzureFetchFailures == {"ClientAuthenticationError", "Exception"}

\* The thread that runs the event loop is inside a synchronous call: no
\* coroutine of this loop runs until the call returns
LoopBlockedAt(p) == p = "azure_call"
LoopFree == ~LoopBlockedAt(apc)

\* lines 309-310, 386-415: get_access_token in AZURE mode, up to the call of
\* self._azure_credential.get_token(scope).  The call is synchronous and is
\* made on the event loop's thread: no await is reached in _get_azure_token.
\* The OSMCPAuthError of line 403 leaves as OSMCPAuthError with the message
\* of line 465.
GetAzureToken ==
    /\ constructed = "yes" /\ mode = "AZURE" /\ apc = "idle"
    /\ tokenCalls < MaxTokenCalls
    /\ tokenCalls' = tokenCalls + 1
    /\ IF _is_azure_token_valid(azureCached, now)
       THEN /\ authResult' = Returned("", azureCached.token)
            /\ azureTrail' = Append(azureTrail, "hit")
            /\ UNCHANGED <<apc, fetches>>
       ELSE IF ~Truthy(env.client_id)
       THEN /\ authResult' = AuthFailure("OSMCPAuthError", "Authentication configuration error")
            /\ azureTrail' = Append(azureTrail, "fail")
            /\ UNCHANGED <<apc, fetches>>
       ELSE /\ fetches' = fetches + 1
            /\ apc' = "azure_call"
            /\ authResult' = NoAuthResult
            /\ azureTrail' = azureTrail
    /\ UNCHANGED <<constructed, mode, initError, initOptions, azureCached, awsSession, gcpCreds,
                   tokenAtConstruction, tokenEdited, accepted>>
    /\ authCloseCalls' = 0
    /\ validated' = validate_token(authResult')
    /\ UNCHANGED <<envVars, clientVars, toolVars, raceVars>>

\* line 415: self._azure_cached_token = get_token(scope) assigns nothing
\* when get_token raises, and no except clause of lines 419-467 assigns
cached_cleared_on_raise(cached) == NoToken
cached_after_raise(cached) == cached

\* lines 415-467: get_token(scope) returned or raised; every exception
\* leaves as OSMCPAuthError
AzureComplete ==
    /\ apc = "azure_call"
    /\ apc' = "idle"
    /\ \/ \E life \in TokenLifetimes :
            /\ azureCached' = [present |-> TRUE, token |-> fetches,
                               expires_on |-> now + life]
            /\ authResult' = Returned("", fetches)
            /\ azureTrail' = Append(azureTrail, "fetch")
       \/ \E f \in AzureFetchFailures :
            /\ azureCached' = cached_after_raise(azureCached)
            /\ authResult' = AuthFailure("OSMCPAuthError",
                    IF f = "ClientAuthenticationError"
                    THEN "Authentication failed"
                    ELSE "Authentication configuration error")
            /\ azureTrail' = Append(azureTrail, "fail")
    /\ UNCHANGED <<constructed, mode, initError, initOptions, awsSession, gcpCreds, fetches, tokenCalls,
                   tokenAtConstruction, tokenEdited, accepted>>
    /\ authCloseCalls' = 0
    /\ validated' = validate_token(authResult')
    /\ UNCHANGED <<envVars, clientVars, toolVars, raceVars>>

\* lines 506-507, 575-576: `except Exception` around the whole body of
\* _get_aws_token and of _get_gcp_token: what leaves for an exception of
\* type excType raised inside
raised_unwrapped(excType) == excType
raised_from_cloud_token(excType) == "OSMCPAuthError"

\* lines 311-312, 486-494: get_access_token in AWS mode, up to the await of
\* run_in_executor.  self._aws_session is None after close(): the
\* AttributeError is caught by `except Exception`.
AwsBegin ==
    /\ constructed = "yes" /\ mode = "AWS" /\ apc = "idle"
    /\ tokenCalls < MaxTokenCalls
    /\ tokenCalls' = tokenCalls + 1
    /\ IF awsSession
       THEN /\ apc' = "aws_wait"
            /\ fetches' = fetches + 1
            /\ authResult' = NoAuthResult
       ELSE /\ authResult' = AuthFailure(raised_from_cloud_token("AttributeError"),
                                         "AWS token retrieval failed")
            /\ UNCHANGED <<apc, fetches>>
    /\ UNCHANGED <<constructed, mode, initError, initOptions, azureCached, awsSession, gcpCreds,
                   tokenAtConstruction, tokenEdited, accepted, azureTrail>>
    /\ authCloseCalls' = 0
    /\ validated' = validate_token(authResult')
    /\ UNCHANGED <<envVars, clientVars, toolVars, raceVars>>

\* lines 492-507: get_session_token() returned or raised in the executor
AwsComplete ==
    /\ apc = "aws_wait"
    /\ apc' = "idle"
    /\ \/ authResult' = Returned("", fetches)
       \/ authResult' = AuthFailure("OSMCPAuthError", "AWS token retrieval failed")
    /\ UNCHANGED <<constructed, mode, initError, initOptions, azureCached, awsSession, gcpCreds,
                   fetches, tokenCalls, tokenAtConstruction, tokenEdited, accepted, azureTrail>>
    /\ authCloseCalls' = 0
    /\ validated' = validate_token(authResult')
    /\ UNCHANGED <<envVars, clientVars, toolVars, raceVars>>

\* google.auth credentials: valid when a token is held and not expired;
\* credentials whose expiry is None (0 here) do not expire
GcpValid(creds, t) ==
    /\ creds.token # 0
    /\ creds.expires_on = 0 \/ t < creds.expires_on

\* lines 313-314, 529-552: get_access_token in GCP mode, up to the await of
\* run_in_executor when a refresh is needed
GcpBegin ==
    /\ constructed = "yes" /\ mode = "GCP" /\ apc = "idle"
    /\ tokenCalls < MaxTokenCalls
    /\ tokenCalls' = tokenCalls + 1
    /\ IF ~gcpCreds.present
       THEN /\ authResult' = AuthFailure(raised_from_cloud_token("AttributeError"),
                                         "Unexpected GCP authentication error")
            /\ UNCHANGED <<apc, fetches>>
       ELSE IF GcpValid(gcpCreds, now)
       THEN /\ authResult' = Returned("", gcpCreds.token)
            /\ UNCHANGED <<apc, fetches>>
       ELSE /\ apc' = "gcp_wait"
            /\ fetches' = fetches + 1
            /\ authResult' = NoAuthResult
    /\ UNCHANGED <<constructed, mode, initError, initOptions, azureCached, awsSession, gcpCreds,
                   tokenAtConstruction, tokenEdited, accepted, azureTrail>>
    /\ authCloseCalls' = 0
    /\ validated' = validate_token(authResult')
    /\ UNCHANGED <<envVars, clientVars, toolVars, raceVars>>

\* lines 543-576: credentials.refresh() returned or raised in the executor;
\* the token is then read from self._gcp_credentials, which close() may
\* have set to None meanwhile
GcpComplete ==
    /\ apc = "gcp_wait"
    /\ apc' = "idle"
    /\ \/ \E life \in TokenLifetimes :
            IF gcpCreds.present
            THEN /\ gcpCreds' = [present |-> TRUE, token |-> fetches,
                                 expires_on |-> now + life]
                 /\ authResult' = Returned("", fetches)
            ELSE /\ gcpCreds' = gcpCreds
                 /\ authResult' = AuthFailure(raised_from_cloud_token("AttributeError"),
                                              "Unexpected GCP authentication error")
       \/ /\ gcpCreds' = gcpCreds
          /\ \E m \in {"GCP token refresh failed", "Unexpected GCP authentication error"} :
                authResult' = AuthFailure("OSMCPAuthError", m)
    /\ UNCHANGED <<constructed, mode, initError, initOptions, azureCached, awsSession,
                   fetches, tokenCalls, tokenAtConstruction, tokenEdited, accepted, azureTrail>>
    /\ authCloseCalls' = 0
    /\ validated' = validate_token(authResult')
    /\ UNCHANGED <<envVars, clientVars, toolVars, raceVars>>

\* lines 608-621: AuthHandler.close()
AuthClose ==
    /\ constructed = "yes" /\ LoopFree
    /\ authCloseCalls < MaxCloses
    /\ authCloseCalls' = authCloseCalls + 1
    /\ validated' = validated
    /\ azureCached' = NoToken
    /\ awsSession' = FALSE
    /\ gcpCreds' = NoToken
    /\ UNCHANGED <<constructed, mode, initError, initOptions, apc, authResult, fetches, tokenCalls,
                   tokenAtConstruction, tokenEdited, accepted, azureTrail>>
    /\ UNCHANGED <<envVars, clientVars, toolVars, raceVars>>

\* The clock advances
Tick ==
    /\ now < MaxTime
    /\ now' = now + 1
    /\ UNCHANGED <<env, awsProbe, gcpProbe>>
    /\ UNCHANGED <<authVars, clientVars, toolVars, raceVars>>

\* The process environment is edited after construction
SetUserToken ==
    /\ constructed = "yes" /\ mode = "USER_TOKEN" /\ LoopFree
    /\ \E t \in UserTokens \cup {""} :
          /\ t # env.user_token
          /\ env' = [env EXCEPT !.user_token = t]
    /\ tokenEdited' = TRUE
    /\ UNCHANGED <<awsProbe, gcpProbe, now>>
    /\ UNCHANGED <<constructed, mode, initError, initOptions, azureCached, awsSession, gcpCreds, apc,
                   authResult, fetches, tokenCalls, tokenAtConstruction, accepted, azureTrail,
                   authCloseCalls, validated>>
    /\ UNCHANGED <<clientVars, toolVars, raceVars>>

SetClientId ==
    /\ constructed = "yes" /\ mode = "AZURE" /\ LoopFree
    /\ env' = [env EXCEPT !.client_id = IF env.client_id = "" THEN "cid" ELSE ""]
    /\ UNCHANGED <<awsProbe, gcpProbe, now>>
    /\ UNCHANGED authVars
    /\ UNCHANGED <<clientVars, toolVars, raceVars>>

----------------------------------------------------------------------------
(* Specifications *)

ClientInit ==
    /\ session = "none"
    /\ sessionsCreated = 0
    /\ pc = "idle"
    /\ attempt = 0
    /\ head = NoStatus
    /\ log = <<>>
    /\ sleeps = <<>>
    /\ result = NoResult
    /\ calls = 0
    /\ callerHeaders = NoHeaders
    /\ headersPassed = FALSE
    /\ callersMapping = NoHeaders
    /\ headers = NoHeaders
    /\ bearer = NoTokenYet
    /\ sent = <<>>
    /\ sessionCloses = <<>>
    /\ closeCalls = 0

AuthInit ==
    /\ constructed = "no"
    /\ mode = "none"
    /\ initError = ""
    /\ initOptions = {}
    /\ azureCached = NoToken
    /\ awsSession = FALSE
    /\ gcpCreds = NoToken
    /\ apc = "idle"
    /\ authResult = NoAuthResult
    /\ fetches = 0
    /\ tokenCalls = 0
    /\ tokenAtConstruction = ""
    /\ tokenEdited = FALSE
    /\ accepted = {}
    /\ azureTrail = <<>>
    /\ authCloseCalls = 0
    /\ validated = "none"

\* No tool invocation takes part
NoTool ==
    /\ tool = "none"
    /\ write_mode = ""
    /\ delete_mode = ""
    /\ confirm = FALSE
    /\ dry_run = FALSE
    /\ records_valid = TRUE
    /\ tpc = "start"
    /\ toolResult = "none"

\* The tasks that share one AuthHandler
Tasks == {"t1", "t2"}
NoGrant == [token |-> 0, expires_on |-> 0]

\* No task has called get_access_token
NoTasks ==
    /\ taskPc = [c \in Tasks |-> "idle"]
    /\ taskResult = [c \in Tasks |-> NoAuthResult]
    /\ workerPc = [c \in Tasks |-> "none"]
    /\ workerGot = [c \in Tasks |-> NoGrant]
    /\ issued = {}

NoEnv == [user_token |-> "", client_id |-> "", tenant_id |-> "",
          aws_key |-> "", aws_profile |-> "", gcp_path |-> ""]

\* The client, with a provider that returns a token or raises
Init ==
    /\ ClientInit
    /\ NoTool
    /\ NoTasks
    /\ data_partition \in Partitions
    /\ AuthInit
    /\ env = NoEnv
    /\ awsProbe = "none"
    /\ gcpProbe = "none"
    /\ now = 0

Next ==
    \/ StartRequest
    \/ TokenReturned
    \/ TokenFailed
    \/ SendAttempt
    \/ AttemptFails
    \/ ResponseHead
    \/ ReadBody
    \/ WakeUp
    \/ Close

vars == <<clientVars, envVars, authVars, toolVars, raceVars>>

Spec == Init /\ [][Next]_vars

\* The client, when the task that awaits the call may be cancelled
NextCancel ==
    \/ StartRequest
    \/ TokenReturned
    \/ TokenFailed
    \/ SendAttempt
    \/ AttemptFails
    \/ ResponseHead
    \/ ReadBody
    \/ WakeUp
    \/ Cancel
    \/ Close

SpecCancel == Init /\ [][NextCancel]_vars

\* The client when every step of a call terminates: the provider answers,
\* an attempt sent ends, a body read ends, a sleep ends
InitLive ==
    /\ Init
    /\ data_partition = "opendes"

NextLive ==
    \/ StartRequestWith({NoHeaders})
    \/ TokenReturned
    \/ TokenFailed
    \/ SendAttempt
    \/ AttemptFails
    \/ ResponseHead
    \/ ReadBody
    \/ WakeUp
    \/ Close

StepsTerminate ==
    /\ WF_vars(TokenReturned \/ TokenFailed)
    /\ WF_vars(SendAttempt)
    /\ WF_vars(AttemptFails \/ ResponseHead)
    /\ WF_vars(ReadBody)
    /\ WF_vars(WakeUp)

SpecLive == InitLive /\ [][NextLive]_vars /\ StepsTerminate

\* Construction, from every environment
InitDetect ==
    /\ ClientInit
    /\ NoTool
    /\ NoTasks
    /\ data_partition = "opendes"
    /\ AuthInit
    /\ env \in Envs
    /\ awsProbe \in ProbeOutcomes
    /\ gcpProbe \in ProbeOutcomes
    /\ now = 0

NextDetect == Construct

SpecDetect == InitDetect /\ [][NextDetect]_vars

\* The provider's life: construction, token calls, close, the clock and
\* edits of the environment
InitAuth ==
    /\ ClientInit
    /\ NoTool
    /\ NoTasks
    /\ data_partition = "opendes"
    /\ AuthInit
    /\ env \in AuthEnvs
    /\ awsProbe = "credentials"
    /\ gcpProbe = "credentials"
    /\ now = 0

NextAuth ==
    \/ Construct
    \/ GetUserToken
    \/ GetAzureToken
    \/ AzureComplete
    \/ AwsBegin
    \/ AwsComplete
    \/ GcpBegin
    \/ GcpComplete
    \/ AuthClose
    \/ Tick
    \/ SetUserToken
    \/ SetClientId

SpecAuth == InitAuth /\ [][NextAuth]_vars

\* Teardown: an owner constructs the provider in one of the four modes, may
\* ask it for a token, may make a request through a client built on it, and
\* calls close() on either, repeatedly, while no call is in progress
ModeEnvs ==
    {[NoEnv EXCEPT !.user_token = "jwt_noexp"], [NoEnv EXCEPT !.client_id = "cid"],
     [NoEnv EXCEPT !.aws_key = "key"], [NoEnv EXCEPT !.gcp_path = "path"]}

InitTeardown ==
    /\ ClientInit
    /\ NoTool
    /\ NoTasks
    /\ data_partition = "opendes"
    /\ AuthInit
    /\ env \in ModeEnvs
    /\ awsProbe = "credentials"
    /\ gcpProbe = "credentials"
    /\ now = 0

NoCallYet == tokenCalls = 0 /\ calls = 0
Quiescent == pc \in {"idle", "done"} /\ apc = "idle"

NextTeardown ==
    \/ Construct
    \/ NoCallYet /\ GetUserToken
    \/ NoCallYet /\ GetAzureToken
    \/ AzureComplete
    \/ NoCallYet /\ AwsBegin
    \/ AwsComplete
    \/ NoCallYet /\ GcpBegin
    \/ GcpComplete
    \/ constructed = "yes" /\ Quiescent /\ calls = 0 /\ StartRequestWith({NoHeaders})
    \/ TokenReturned
    \/ TokenFailed
    \/ SendAttempt
    \/ AttemptFails
    \/ ResponseHead
    \/ ReadBody
    \/ WakeUp
    \/ Quiescent /\ Close
    \/ Quiescent /\ AuthClose

SpecTeardown == InitTeardown /\ [][NextTeardown]_vars

----------------------------------------------------------------------------
(* Tool invocations *)

StorageTools == {"storage_create_update_records", "storage_delete_record",
                 "storage_purge_record"}
PartitionWriteTools == {"partition_create", "partition_update", "partition_delete"}
LegalTools == {"legaltag_create", "legaltag_update", "legaltag_delete"}
SchemaTools == {"schema_create", "schema_update"}
ReadTools == {"partition_get", "health_check"}
Tools == StorageTools \cup PartitionWriteTools \cup LegalTools \cup SchemaTools \cup ReadTools

ConfirmTools == {"storage_purge_record", "legaltag_delete", "partition_delete"}

\* Values of the two protection variables
FlagValues == {"", "false", "true", "True"}

\* os.environ.get(name, default)
EnvGet(v, default) == IF v = "" THEN default ELSE v
\* str.lower()
Lower(v) == IF v = "True" THEN "true" ELSE v

\* os.environ.get("OSDU_MCP_ENABLE_WRITE_MODE", "false").lower() == "true"
WriteEnabledByDefault(v) == Lower(EnvGet(v, "true")) = "true"
WriteEnabled(v) == Lower(EnvGet(v, "false")) = "true"
\* os.environ.get("OSDU_MCP_ENABLE_DELETE_MODE", "false").lower() == "true"
DeleteEnabledByDefault(v) == Lower(EnvGet(v, "true")) = "true"
DeleteEnabled(v) == Lower(EnvGet(v, "false")) = "true"

\* The checks a tool function makes before it constructs anything, in order
EntryChecks(t) ==
    IF t \in {"legaltag_create", "legaltag_update"} \cup SchemaTools THEN <<"write">>
    ELSE IF t \in {"partition_create", "partition_update"} THEN <<"write", "dry_run">>
    ELSE IF t = "partition_delete" THEN <<"write", "confirm_or_dry_run", "dry_run">>
    ELSE IF t = "legaltag_delete" THEN <<"confirm">>
    ELSE <<>>

\* The checks the client method makes before it issues a request, in order
ClientChecks(t) ==
    IF t = "storage_create_update_records" THEN <<"valid", "write">>
    ELSE IF t = "storage_delete_record" THEN <<"delete">>
    ELSE IF t = "storage_purge_record" THEN <<"confirm", "delete">>
    ELSE IF t = "legaltag_delete" THEN <<"delete">>
    ELSE IF t \in PartitionWriteTools \cup SchemaTools THEN <<"write">>
    ELSE <<>>

Passes(check) ==
    CASE check = "write"              -> WriteEnabled(write_mode)
      [] check = "delete"             -> DeleteEnabled(delete_mode)
      [] check = "confirm"            -> confirm
      [] check = "confirm_or_dry_run" -> confirm \/ dry_run
      [] check = "dry_run"            -> ~dry_run
      [] check = "valid"              -> records_valid

\* What the invocation reports when a check stops it
Report(check) ==
    CASE check = "write"              -> "write_disabled"
      [] check = "delete"             -> "delete_disabled"
      [] check = "confirm"            -> "not_confirmed"
      [] check = "confirm_or_dry_run" -> "not_confirmed"
      [] check = "dry_run"            -> "dry_run"
      [] check = "valid"              -> "validation_error"

Failing(checks) == {i \in 1..Len(checks) : ~Passes(checks[i])}
\* The report of the first check that fails, "pass" when none does
FirstFailure(checks) ==
    IF Failing(checks) = {} THEN "pass"
    ELSE Report(checks[CHOOSE i \in Failing(checks) : \A j \in Failing(checks) : i <= j])

\* The requests a tool makes one after another: health_check asks several
\* services, schema_update reads the schema before it writes it
RequestsOf(t) == IF t \in {"health_check", "schema_update"} THEN MaxCalls ELSE 1
\* health_check catches the failure of a service check and goes on
GoesOn(t, r) == t = "health_check" \/ r.kind = "return"

\* The partition client passes the partition as a header of its own
PartitionHeader == [NoHeaders EXCEPT !["data-partition-id"] = CallerValue("data-partition-id")]
HeadersOf(t) == IF t \in PartitionWriteTools \cup {"partition_get"}
                THEN {PartitionHeader} ELSE {NoHeaders}

\* The finally block of the tool: which close() calls it makes
ClosesProvider(t) == t = "health_check"

Finished(report) ==
    /\ toolResult' = report
    /\ tpc' = "done"
    /\ UNCHANGED <<tool, write_mode, delete_mode, confirm, dry_run, records_valid>>

MovesTo(position, report) ==
    /\ toolResult' = report
    /\ tpc' = position
    /\ UNCHANGED <<tool, write_mode, delete_mode, confirm, dry_run, records_valid>>

\* The tool function is entered: its own checks, before anything is constructed
ToolEnter ==
    /\ tpc = "start"
    /\ LET f == FirstFailure(EntryChecks(tool))
       IN  IF f = "pass" THEN MovesTo("construct", toolResult) ELSE Finished(f)
    /\ UNCHANGED <<clientVars, envVars, authVars, raceVars>>

\* auth = AuthHandler(config)
ToolConstruct == tpc = "construct" /\ Construct

\* AuthHandler(config) raised: there is nothing to release
ToolConstructFailed ==
    /\ tpc = "construct" /\ constructed = "failed"
    /\ Finished("auth_error")
    /\ UNCHANGED <<clientVars, envVars, authVars, raceVars>>

\* client = XClient(config, auth); the client method is called and makes its
\* checks before the first request
ToolCall ==
    /\ tpc = "construct" /\ constructed = "yes"
    /\ LET f == FirstFailure(ClientChecks(tool))
       IN  IF f = "pass" THEN MovesTo("request", toolResult) ELSE MovesTo("finally", f)
    /\ UNCHANGED <<clientVars, envVars, authVars, raceVars>>

\* health_check: await auth_handler.validate_token(), before the services
ToolValidates ==
    /\ tpc = "request" /\ tool = "health_check"
    /\ tokenCalls = 0
    /\ GetUserToken

\* the client method issues a request
ToolRequest ==
    /\ tpc = "request"
    /\ tool = "health_check" => tokenCalls > 0
    /\ calls < RequestsOf(tool)
    /\ calls > 0 => GoesOn(tool, result)
    /\ StartRequestWith(HeadersOf(tool))

ToolRequestStep ==
    /\ tpc = "request"
    /\ \/ TokenReturned
       \/ TokenFailed
       \/ SendAttempt
       \/ AttemptFails
       \/ ResponseHead
       \/ ReadBody
       \/ WakeUp

\* the try block is left, by return or by an exception
ToolLeavesTry ==
    /\ tpc = "request" /\ pc = "done"
    /\ ~(calls < RequestsOf(tool) /\ GoesOn(tool, result))
    /\ MovesTo("finally", IF GoesOn(tool, result) THEN "completed" ELSE "failed")
    /\ UNCHANGED <<clientVars, envVars, authVars, raceVars>>

\* finally: await client.close()
ToolClosesClient == tpc = "finally" /\ closeCalls = 0 /\ Close

\* finally: auth_handler.close(), in the tools that have the line
ToolClosesProvider ==
    /\ tpc = "finally" /\ closeCalls = 1
    /\ ClosesProvider(tool) /\ authCloseCalls = 0
    /\ AuthClose

\* the finally block is left
ToolExit ==
    /\ tpc = "finally" /\ closeCalls = 1
    /\ ClosesProvider(tool) => authCloseCalls = 1
    /\ Finished(toolResult)
    /\ UNCHANGED <<clientVars, envVars, authVars, raceVars>>

ToolEnvs == {NoEnv, [NoEnv EXCEPT !.user_token = "jwt_noexp"]}

InitTool ==
    /\ ClientInit
    /\ data_partition = "opendes"
    /\ AuthInit
    /\ env \in ToolEnvs
    /\ awsProbe = "none"
    /\ gcpProbe = "none"
    /\ now = 0
    /\ NoTasks
    /\ tool \in Tools
    /\ write_mode \in FlagValues
    /\ delete_mode \in FlagValues
    /\ confirm \in (IF tool \in ConfirmTools THEN BOOLEAN ELSE {FALSE})
    /\ dry_run \in (IF tool \in PartitionWriteTools THEN BOOLEAN ELSE {FALSE})
    /\ records_valid \in (IF tool = "storage_create_update_records" THEN BOOLEAN ELSE {TRUE})
    /\ tpc = "start"
    /\ toolResult = "none"

NextTool ==
    \/ ToolEnter
    \/ ToolConstruct
    \/ ToolConstructFailed
    \/ ToolCall
    \/ ToolValidates
    \/ ToolRequest
    \/ ToolRequestStep
    \/ ToolLeavesTry
    \/ ToolClosesClient
    \/ ToolClosesProvider
    \/ ToolExit

SpecTool == InitTool /\ [][NextTool]_vars

----------------------------------------------------------------------------
(* Concurrent get_access_token calls on one AuthHandler *)

\* The provider's variables no token call writes
authRest == <<constructed, mode, initError, initOptions, awsSession, apc, authResult,
              tokenCalls, tokenAtConstruction, tokenEdited, accepted, azureTrail,
              authCloseCalls, validated>>

TaskEnds(c, r) ==
    /\ taskPc' = [taskPc EXCEPT ![c] = "done"]
    /\ taskResult' = [taskResult EXCEPT ![c] = r]

\* the call suspends at run_in_executor; the backend call starts on a thread
\* of the executor
TaskSuspends(c) ==
    /\ taskPc' = [taskPc EXCEPT ![c] = "wait"]
    /\ taskResult' = [taskResult EXCEPT ![c] = NoAuthResult]
    /\ workerPc' = [workerPc EXCEPT ![c] = "running"]
    /\ workerGot' = [workerGot EXCEPT ![c] = [token |-> fetches + 1, expires_on |-> 0]]
    /\ fetches' = fetches + 1

TaskReady(c, m) ==
    /\ constructed = "yes" /\ mode = m
    /\ taskPc[c] = "idle"

\* lines 386-467: _get_azure_token has no await: the call of task c runs
\* from its first line to its return or raise while no other task runs
TaskAzure(c) ==
    /\ TaskReady(c, "AZURE")
    /\ IF _is_azure_token_valid(azureCached, now)
       THEN /\ TaskEnds(c, Returned("", azureCached.token))
            /\ UNCHANGED <<azureCached, fetches, workerPc, issued>>
       ELSE IF ~Truthy(env.client_id)
       THEN /\ TaskEnds(c, AuthFailure("OSMCPAuthError", "Authentication configuration error"))
            /\ UNCHANGED <<azureCached, fetches, workerPc, issued>>
       ELSE /\ fetches' = fetches + 1
            /\ \/ \E life \in TokenLifetimes :
                    LET got == [token |-> fetches + 1, expires_on |-> now + life]
                    IN  /\ azureCached' = [present |-> TRUE, token |-> got.token,
                                           expires_on |-> got.expires_on]
                        /\ issued' = issued \cup {got}
                        /\ TaskEnds(c, Returned("", got.token))
                        /\ workerPc' = workerPc
               \/ /\ azureCached' = cached_after_raise(azureCached)
                  /\ issued' = issued
                  /\ workerPc' = [workerPc EXCEPT ![c] = "raised"]
                  /\ TaskEnds(c, AuthFailure("OSMCPAuthError", "Authentication failed"))
    /\ UNCHANGED <<gcpCreds, workerGot, authRest>>
    /\ UNCHANGED <<envVars, clientVars, toolVars>>

\* lines 486-494: _get_aws_token up to the await of run_in_executor
TaskAwsBegin(c) ==
    /\ TaskReady(c, "AWS")
    /\ IF awsSession
       THEN TaskSuspends(c)
       ELSE /\ TaskEnds(c, AuthFailure(raised_from_cloud_token("AttributeError"),
                                       "AWS token retrieval failed"))
            /\ UNCHANGED <<workerPc, workerGot, fetches>>
    /\ UNCHANGED <<azureCached, gcpCreds, issued, authRest>>
    /\ UNCHANGED <<envVars, clientVars, toolVars>>

\* lines 509-518: get_session_token() on the executor thread
WorkerAws(c) ==
    /\ mode = "AWS" /\ workerPc[c] = "running"
    /\ \/ \E life \in TokenLifetimes :
            LET got == [token |-> workerGot[c].token, expires_on |-> now + life]
            IN  /\ workerGot' = [workerGot EXCEPT ![c] = got]
                /\ issued' = issued \cup {got}
                /\ workerPc' = [workerPc EXCEPT ![c] = "finished"]
       \/ /\ workerPc' = [workerPc EXCEPT ![c] = "raised"]
          /\ UNCHANGED <<workerGot, issued>>
    /\ UNCHANGED <<taskPc, taskResult, azureCached, gcpCreds, fetches, authRest>>
    /\ UNCHANGED <<envVars, clientVars, toolVars>>

\* lines 492-507: the await returns the response or raises
TaskAwsEnd(c) ==
    /\ mode = "AWS" /\ taskPc[c] = "wait"
    /\ workerPc[c] \in {"finished", "raised"}
    /\ IF workerPc[c] = "finished"
       THEN TaskEnds(c, Returned("", workerGot[c].token))
       ELSE TaskEnds(c, AuthFailure(raised_from_cloud_token("ClientError"),
                                    "AWS token retrieval failed"))
    /\ UNCHANGED <<workerPc, workerGot, issued, azureCached, gcpCreds, fetches, authRest>>
    /\ UNCHANGED <<envVars, clientVars, toolVars>>

\* lines 529-543: _get_gcp_token up to the await of run_in_executor, when the
\* credentials are not valid; otherwise to its return
TaskGcpBegin(c) ==
    /\ TaskReady(c, "GCP")
    /\ IF ~gcpCreds.present
       THEN /\ TaskEnds(c, AuthFailure(raised_from_cloud_token("AttributeError"),
                                       "Unexpected GCP authentication error"))
            /\ UNCHANGED <<workerPc, workerGot, fetches>>
       ELSE IF GcpValid(gcpCreds, now)
       THEN /\ TaskEnds(c, Returned("", gcpCreds.token))
            /\ UNCHANGED <<workerPc, workerGot, fetches>>
       ELSE TaskSuspends(c)
    /\ UNCHANGED <<azureCached, gcpCreds, issued, authRest>>
    /\ UNCHANGED <<envVars, clientVars, toolVars>>

\* line 543: self._gcp_credentials.refresh(request) runs on the executor
\* thread: the token endpoint answers with a token and its expiry, or the
\* request fails
WorkerGcpGrant(c) ==
    /\ mode = "GCP" /\ workerPc[c] = "running"
    /\ \/ \E life \in TokenLifetimes :
            LET got == [token |-> workerGot[c].token, expires_on |-> now + life]
            IN  /\ workerGot' = [workerGot EXCEPT ![c] = got]
                /\ issued' = issued \cup {got}
                /\ workerPc' = [workerPc EXCEPT ![c] = "granted"]
       \/ /\ workerPc' = [workerPc EXCEPT ![c] = "raised"]
          /\ UNCHANGED <<workerGot, issued>>
    /\ UNCHANGED <<taskPc, taskResult, azureCached, gcpCreds, fetches, authRest>>
    /\ UNCHANGED <<envVars, clientVars, toolVars>>

\* refresh() then stores what it got on the credentials object the loop's
\* thread reads, one attribute after the other: self.token = ...
WorkerGcpStoresToken(c) ==
    /\ workerPc[c] = "granted"
    /\ gcpCreds' = [gcpCreds EXCEPT !.token = workerGot[c].token]
    /\ workerPc' = [workerPc EXCEPT ![c] = "stored_token"]
    /\ UNCHANGED <<taskPc, taskResult, workerGot, issued, azureCached, fetches, authRest>>
    /\ UNCHANGED <<envVars, clientVars, toolVars>>

\* ... and then self.expiry = ...
WorkerGcpStoresExpiry(c) ==
    /\ workerPc[c] = "stored_token"
    /\ gcpCreds' = [gcpCreds EXCEPT !.expires_on = workerGot[c].expires_on]
    /\ workerPc' = [workerPc EXCEPT ![c] = "finished"]
    /\ UNCHANGED <<taskPc, taskResult, workerGot, issued, azureCached, fetches, authRest>>
    /\ UNCHANGED <<envVars, clientVars, toolVars>>

\* lines 543-576: the await returns or raises; the token is read from the
\* credentials
TaskGcpEnd(c) ==
    /\ mode = "GCP" /\ taskPc[c] = "wait"
    /\ workerPc[c] \in {"finished", "raised"}
    /\ IF workerPc[c] = "raised"
       THEN TaskEnds(c, AuthFailure("OSMCPAuthError", "GCP token refresh failed"))
       ELSE IF gcpCreds.token = 0
       THEN TaskEnds(c, AuthFailure(raised_from_cloud_token("OSMCPAuthError"),
                                    "Unexpected GCP authentication error"))
       ELSE TaskEnds(c, Returned("", gcpCreds.token))
    /\ UNCHANGED <<workerPc, workerGot, issued, azureCached, gcpCreds, fetches, authRest>>
    /\ UNCHANGED <<envVars, clientVars, toolVars>>

\* the task makes another call
TaskAgain(c) ==
    /\ taskPc[c] = "done"
    /\ fetches < MaxTokenCalls
    /\ taskPc' = [taskPc EXCEPT ![c] = "idle"]
    /\ taskResult' = [taskResult EXCEPT ![c] = NoAuthResult]
    /\ workerPc' = [workerPc EXCEPT ![c] = "none"]
    /\ UNCHANGED <<workerGot, issued, azureCached, gcpCreds, fetches, authRest>>
    /\ UNCHANGED <<envVars, clientVars, toolVars>>

InitRace ==
    /\ ClientInit
    /\ NoTool
    /\ NoTasks
    /\ data_partition = "opendes"
    /\ AuthInit
    /\ env \in ModeEnvs
    /\ awsProbe = "credentials"
    /\ gcpProbe = "credentials"
    /\ now = DstEnd

NextRace ==
    \/ Construct
    \/ Tick
    \/ \E c \in Tasks :
          \/ TaskAzure(c)
          \/ TaskAwsBegin(c)
          \/ WorkerAws(c)
          \/ TaskAwsEnd(c)
          \/ TaskGcpBegin(c)
          \/ WorkerGcpGrant(c)
          \/ WorkerGcpStoresToken(c)
          \/ WorkerGcpStoresExpiry(c)
          \/ TaskGcpEnd(c)
          \/ TaskAgain(c)

SpecRace == InitRace /\ [][NextRace]_vars

----------------------------------------------------------------------------
(* Claims about the retry loop of OsduClient._make_request *)

IsConnFailure(e) == e.kind = "ClientError"
IsTimeout(e) == e.kind = "TimeoutError"
IsAnswer(e) == e.kind = "Response" /\ e.read \in {"json", "text"}
IsErrorAnswer(e) == IsAnswer(e) /\ e.status >= 400
IsSuccessAnswer(e) == IsAnswer(e) /\ e.status < 400
AllBefore(i, P(_)) == \A j \in 1..(i - 1) : P(log[j])
Backoffs(k) == [n \in 1..k |-> Pow2(n - 1)]

\* C1: at whatever attempt the upstream answers with a status >= 400 (and
\* the body text is delivered), the call ends there with OSMCPAPIError
\* carrying that status and that body text; the answer is the last attempt
\* of the call and no sleep follows it.
C1_HttpErrorNotRetried ==
    \A i \in 1..Len(log) :
        IsErrorAnswer(log[i]) =>
            /\ i = Len(log)
            /\ pc = "done"
            /\ result.kind = "OSMCPAPIError"
            /\ result.status = log[i].status
            /\ result.label = "Request failed: "
            /\ result.text = log[i].text
            /\ Len(sleeps) = i - 1

C1_Witness ==
    /\ Len(log) = 3
    /\ IsErrorAnswer(log[3])
    /\ log[3].status = 400
    /\ result.kind = "OSMCPAPIError"

\* C2: a call never makes more than 3 attempts; a finished call all of whose
\* attempts failed at connection level made exactly 3 attempts, slept
\* exactly twice and raised OSMCPConnectionError.
C2_ThreeAttemptsTwoSleeps ==
    /\ Len(log) + (IF pc \in {"inflight", "body"} THEN 1 ELSE 0) <= 3
    /\ (pc = "done" /\ log # <<>> /\ AllBefore(Len(log) + 1, IsConnFailure)) =>
            /\ Len(log) = 3
            /\ Len(sleeps) = 2
            /\ result.kind = "OSMCPConnectionError"

C2_Witness ==
    /\ pc = "done"
    /\ Len(log) = 3
    /\ AllBefore(4, IsConnFailure)
    /\ result.kind = "OSMCPConnectionError"

\* C3: k connection-level failures (k = 0, 1, 2) followed by a successful
\* response: the call returns that response's payload, having slept exactly
\* k times, for 1 second and then 2 seconds (2^(n-1) after failed attempt n).
C3_RetryThenSucceed ==
    \A i \in 1..Len(log) :
        (IsSuccessAnswer(log[i]) /\ AllBefore(i, IsConnFailure)) =>
            /\ i = Len(log)
            /\ pc = "done"
            /\ result.kind = "return"
            /\ result.text = log[i].text
            /\ result.label = (IF log[i].read = "json" THEN "json" ELSE "response")
            /\ sleeps = Backoffs(i - 1)

C3_Witness ==
    /\ Len(log) = 3
    /\ AllBefore(3, IsConnFailure)
    /\ IsSuccessAnswer(log[3])
    /\ result.kind = "return"
    /\ sleeps = <<1, 2>>

\* C4 (as claimed): a timeout before a status line is retried like a
\* connection failure: a finished call all of whose attempts timed out made
\* 3 attempts, slept 1s then 2s, and raised OSMCPConnectionError.
C4_TimeoutRetried ==
    (pc = "done" /\ log # <<>> /\ AllBefore(Len(log) + 1, IsTimeout)) =>
        /\ Len(log) = 3
        /\ sleeps = <<1, 2>>
        /\ result.kind = "OSMCPConnectionError"

\* What the loop does with the failure of its last attempt
IsUnclassified(e) ==
    \/ e.kind \in {"TimeoutError", "RuntimeError"}
    \/ e.kind = "Response" /\ e.read = "TimeoutError"

\* C5 (as claimed): a failure that is neither an HTTP error status nor a
\* connection-level failure surfaces as OSMCPConnectionError, and
\* OSMCPAPIError is raised only for an upstream 4xx/5xx, carrying its status.
C5_UnclassifiedIsConnectionError ==
    (pc = "done" /\ log # <<>>) =>
        /\ IsUnclassified(log[Len(log)]) => result.kind = "OSMCPConnectionError"
        /\ result.kind = "OSMCPAPIError" =>
              /\ IsErrorAnswer(log[Len(log)])
              /\ result.status = log[Len(log)].status

\* C5 (amended): a failure in the retry loop that is neither an HTTP error
\* status nor an aiohttp.ClientError ends the call at once, without a sleep
\* after it, as OSMCPAPIError "Unexpected error" with no status code;
\* OSMCPAPIError carries a status code exactly when the upstream returned a
\* 4xx/5xx whose body was read, and then it is that status.
C5_UnclassifiedIsApiErrorNoStatus ==
    \A i \in 1..Len(log) :
        /\ IsUnclassified(log[i]) =>
              /\ i = Len(log)
              /\ pc = "done"
              /\ result.kind = "OSMCPAPIError"
              /\ result.status = NoStatus
              /\ result.label = "Unexpected error: "
              /\ Len(sleeps) = i - 1
        /\ (i = Len(log) /\ pc = "done" /\ result.kind = "OSMCPAPIError") =>
              /\ (result.status # NoStatus) = IsErrorAnswer(log[i])
              /\ IsErrorAnswer(log[i]) => result.status = log[i].status

C5_Witness ==
    /\ pc = "done"
    /\ Len(log) = 2
    /\ IsConnFailure(log[1])
    /\ log[2].kind = "RuntimeError"
    /\ result.kind = "OSMCPAPIError"
    /\ result.status = NoStatus

----------------------------------------------------------------------------
(* Claims about AuthHandler *)

AzureCall == mode = "AZURE" /\ tokenCalls' = tokenCalls + 1
UserCall == mode = "USER_TOKEN" /\ tokenCalls' = tokenCalls + 1
Fetched == fetches' = fetches + 1

StaleOnWallClock ==
    fromtimestamp(azureCached.expires_on) <= datetime_now(now) + expiry_buffer

Conditions(e, aws, gcp) ==
    <<e.user_token # "",
      e.client_id # "" \/ e.tenant_id # "",
      e.aws_key # "" \/ e.aws_profile # "",
      e.gcp_path # "",
      aws = "credentials",
      gcp = "credentials">>
ModeOfCondition == <<"USER_TOKEN", "AZURE", "AWS", "GCP", "AWS", "GCP">>
Holding == {i \in 1..6 : Conditions(env, awsProbe, gcpProbe)[i]}
Lowest(S) == CHOOSE i \in S : \A j \in S : i <= j

\* C7: the detected mode is the mode of the lowest-numbered condition that
\* holds among (1) manual token, (2) Azure client or tenant id, (3) AWS
\* access key or profile, (4) GCP credentials-file path, (5) AWS ambient
\* probe, (6) GCP ambient probe; it is USER_TOKEN whenever a manual token
\* is present.
C7_FirstMatchWins ==
    (constructed # "no" /\ Holding # {}) =>
        /\ mode = ModeOfCondition[Lowest(Holding)]
        /\ env.user_token # "" => mode = "USER_TOKEN"

C7_Witness ==
    /\ constructed # "no"
    /\ mode = "AWS"
    /\ Holding = {3, 4, 6}

\* C8 (as claimed): in USER_TOKEN mode every successful get_access_token
\* returns the token that was configured when the handler was constructed,
\* whatever was done to the environment since.
C8_ReturnsConstructionToken ==
    (mode = "USER_TOKEN" /\ authResult.kind = "return") =>
        authResult.token = tokenAtConstruction

\* C8 (amended): in USER_TOKEN mode every successful get_access_token
\* returns, verbatim, the value OSDU_MCP_USER_TOKEN holds when the call is
\* made; that is the construction-time token as long as the variable has
\* not been changed since construction.
C8_ReturnsEnvironmentToken ==
    [][(UserCall /\ authResult'.kind = "return") =>
          /\ authResult'.token = env.user_token
          /\ authResult'.token # ""
          /\ ~tokenEdited => authResult'.token = tokenAtConstruction]_vars

C8_Witness ==
    /\ mode = "USER_TOKEN"
    /\ tokenEdited
    /\ authResult.kind = "return"
    /\ authResult.token = env.user_token
    /\ authResult.token # tokenAtConstruction

\* C9: in USER_TOKEN mode a call made when the token's exp lies before the
\* current time raises OSMCPAuthError "Token has expired", on every call,
\* also for a token an earlier call accepted; a token whose exp is still in
\* the future (however near) or that has no exp claim is returned.
C9_ExpiredRejected ==
    [][(UserCall /\ env.user_token # "" /\ JwtDecode(env.user_token).ok) =>
          LET p == JwtDecode(env.user_token)
          IN  /\ (p.has_exp /\ p.numeric /\ p.exp < now) =>
                    authResult' = AuthFailure("OSMCPAuthError", "Token has expired")
              /\ (~p.has_exp \/ (p.numeric /\ p.exp > now)) =>
                    authResult' = Returned(env.user_token, 0)]_vars

C9_Witness ==
    /\ mode = "USER_TOKEN"
    /\ env.user_token \in accepted
    /\ authResult = AuthFailure("OSMCPAuthError", "Token has expired")

\* C10 (as claimed): a get_access_token call that fails, in any mode, fails
\* with OSMCPAuthError and with no other exception type.
C10_OnlyAuthError ==
    authResult.kind \in {"none", "return", "OSMCPAuthError"}

----------------------------------------------------------------------------
(* Claims about the headers of a request *)

----------------------------------------------------------------------------
(* Claims about the pooled session *)

RequestIssued == calls' = calls + 1

\* C12: no session exists before the first request; as long as close() has
\* not been called the requests made so far have created exactly one session
\* and a further request reuses it; a request issued when the session is
\* closed creates a new session and goes on to acquire the token
C12_LazySharedSession ==
    /\ [](calls = 0 => session = "none" /\ sessionsCreated = 0)
    /\ [](calls > 0 /\ sessionCloses = <<>> => session = "open" /\ sessionsCreated = 1)
    /\ [][RequestIssued /\ session = "open" =>
            session' = "open" /\ sessionsCreated' = sessionsCreated]_vars
    /\ [][RequestIssued /\ session = "closed" =>
            session' = "open" /\ sessionsCreated' = sessionsCreated + 1 /\ pc' = "token"]_vars

\* a request made after close() ran on a second session and returned
C12_Witness ==
    /\ calls = 2
    /\ sessionCloses = <<1>>
    /\ sessionsCreated = 2
    /\ session = "open"
    /\ result.kind = "return"

\* C13: after close() has returned once or more in a row on the provider,
\* in any mode and with or without a token fetched before, the provider holds
\* no cached token, credentials or session; after close() has returned once
\* or more in a row on the client, with or without a session created before,
\* the client has no open session; and session.close() has been awaited at
\* most once on each session
C13_CloseIdempotent ==
    /\ authCloseCalls > 0 => azureCached = NoToken /\ gcpCreds = NoToken /\ ~awsSession
    /\ closeCalls > 0 => session # "open"
    /\ \A i, j \in 1..Len(sessionCloses) : sessionCloses[i] = sessionCloses[j] => i = j

\* both were closed twice in a row after an Azure token was fetched and a
\* request was made on a session
C13_Witness ==
    /\ mode = "AZURE" /\ fetches = 1
    /\ authCloseCalls = 2
    /\ calls = 1 /\ sessionsCreated = 1
    /\ closeCalls = 2
    /\ sessionCloses = <<1>>

----------------------------------------------------------------------------
(* Claims about suspension points *)

\* a get_access_token call is waiting for a backend's answer
InsideTokenFetch == apc \in {"azure_call", "aws_wait", "gcp_wait"}

\* C14: while a task is inside a token acquisition over the wire, in each of
\* the three cloud modes, the event loop is free to run other tasks
C14_FetchIsSuspensionPoint == InsideTokenFetch => LoopFree

----------------------------------------------------------------------------
(* Claims about tool invocations *)

\* C15: when an invocation that constructed a provider and a client is over,
\* close() has been called on the client and on the provider
C15_BothReleased ==
    tpc = "done" /\ constructed = "yes" => closeCalls >= 1 /\ authCloseCalls >= 1

----------------------------------------------------------------------------
(* Claims about construction without credentials *)

\* no manual token, no explicit configuration of any backend, and neither
\* probe finds credentials
NothingConfigured ==
    /\ \A f \in DOMAIN env : ~Truthy(env[f])
    /\ awsProbe \in {"none", "raises"}
    /\ gcpProbe \in {"none", "raises"}

\* C16: with nothing configured and both probes failing, AuthHandler(config)
\* raises OSMCPAuthError whose message lists the setup options of the manual
\* token and of the three backends, and no handler exists afterwards
C16_NoCredentialsError ==
    NothingConfigured /\ constructed # "no" =>
        /\ constructed = "failed"
        /\ initError = "OSMCPAuthError"
        /\ initOptions = {"Manual Token", "Azure", "AWS", "GCP"}
        /\ mode = "none"

\* construction was tried where one probe raises and the other finds nothing
C16_Witness ==
    /\ NothingConfigured
    /\ awsProbe = "raises" /\ gcpProbe = "none"
    /\ constructed = "failed"

----------------------------------------------------------------------------
(* Claims about validate_token *)

\* C17: validate_token() gives True exactly when the get_access_token() call
\* it makes returns a token, False when that call fails, and never raises
C17_ValidateNeverRaises ==
    authResult.kind # "none" =>
        /\ validated \in {"True", "False"}
        /\ validated = "True" <=> authResult.kind = "return"

----------------------------------------------------------------------------
(* Claims about success bodies *)

\* C18: a response with status below 400 whose body arrives ends the call by
\* a return, never by an error or a retry: the parsed JSON value when the
\* body parses as JSON, {"response": text} otherwise
C18_SuccessBodyReturned ==
    \A i \in 1..Len(log) :
        IsSuccessAnswer(log[i]) =>
            /\ i = Len(log)
            /\ pc = "done"
            /\ result.kind = "return"
            /\ result.text = log[i].text
            /\ result.label = (IF ParsesAsJson(log[i].text) THEN "json" ELSE "response")

----------------------------------------------------------------------------
(* Claims about the write and delete protection of the tools *)

WriteTools == {"storage_create_update_records", "partition_create",
               "partition_update", "partition_delete", "legaltag_create",
               "legaltag_update", "schema_create", "schema_update"}
DeleteTools == {"storage_delete_record", "storage_purge_record", "legaltag_delete"}
\* the value is the string 'true', whatever the case of its letters
IsTrueText(v) == v \in {"true", "True"}
WriteModeOff == tool \in WriteTools /\ ~IsTrueText(write_mode)

C20_DeleteGate ==
    (tool \in DeleteTools /\ calls > 0) =>
        /\ IsTrueText(delete_mode)
        /\ tool \in {"storage_purge_record", "legaltag_delete"} => confirm

\* a purge that was confirmed sent its request with the delete mode on and
\* the write mode off
C20_Witness ==
    /\ tool = "storage_purge_record"
    /\ delete_mode = "true"
    /\ write_mode = "false"
    /\ confirm
    /\ calls > 0
    /\ Len(sent) > 0

----------------------------------------------------------------------------
(* Claims about what is re-sent *)

\* C21: once an attempt has received a status line, whatever the status and
\* whatever happens while its body is read, the request is not sent again:
\* an attempt that received a status line is the last attempt of its call
C21_NoResendAfterStatus ==
    \A i \in 1..Len(log) :
        log[i].kind = "Response" => /\ i = Len(log)
                                    /\ Len(sent) = i
                                    /\ pc = "done"

\* C22: whatever close() calls interleave with a request, every attempt of
\* it, first or retry, is issued on a session that is open when it is
\* issued: no attempt meets a closed session
C22_AttemptsOnOpenSession ==
    \A i \in 1..Len(log) : log[i].kind # "RuntimeError"

----------------------------------------------------------------------------
(* Claims about cancellation *)

\* C24: a cancellation delivered to a call while an attempt is in flight or
\* while it sleeps in backoff ends the call with the cancellation itself, not
\* with OSMCPAPIError or OSMCPConnectionError; the call sends nothing and
\* sleeps no more afterwards; the session and the cached token stay as they
\* were
C24_CancellationPropagates ==
    /\ [][Cancel => /\ result'.kind = "CancelledError"
                    /\ pc' = "done"
                    /\ sent' = sent /\ sleeps' = sleeps
                    /\ session' = session /\ sessionsCreated' = sessionsCreated
                    /\ azureCached' = azureCached /\ gcpCreds' = gcpCreds]_vars
    /\ [][(result.kind = "CancelledError" /\ calls' = calls) =>
              /\ result' = result
              /\ sent' = sent /\ sleeps' = sleeps /\ log' = log]_vars

\* a call cancelled during its second attempt, after one backoff sleep, with
\* the session still open
C24_Witness ==
    /\ result.kind = "CancelledError"
    /\ pc = "done"
    /\ Len(sent) = 2
    /\ Len(log) = 1
    /\ sleeps = <<1>>
    /\ session = "open"

----------------------------------------------------------------------------
(* Claims about the token of a request *)

\* C25: within a call no attempt is sent before get_access_token() has
\* returned; when it raises OSMCPAuthError the call ends with that
\* OSMCPAuthError, unwrapped, having sent nothing and slept never
C25_TokenBeforeAttempts ==
    /\ [](pc \in {"send", "inflight", "body", "sleep"} => bearer # NoTokenYet)
    /\ []((sent # <<>> \/ log # <<>> \/ sleeps # <<>>) => bearer # NoTokenYet)
    /\ [][TokenFailed => /\ result' = [kind |-> "OSMCPAuthError", status |-> NoStatus,
                                       label |-> "", text |-> ""]
                         /\ pc' = "done"
                         /\ sent' = <<>> /\ log' = <<>> /\ sleeps' = <<>>]_vars

\* a call ended by the provider's OSMCPAuthError, with nothing sent
C25_Witness ==
    /\ result.kind = "OSMCPAuthError"
    /\ pc = "done"
    /\ bearer = NoTokenYet
    /\ sent = <<>>
    /\ sleeps = <<>>


\* C26: a call asks the provider for a token exactly once, before its first
\* attempt, and every attempt of the call, retries included, carries the
\* token that one call returned
C26_OneTokenPerRequest ==
    /\ [](\A i \in 1..Len(sent) : sent[i]["Authorization"] = "Bearer " \o bearer)
    /\ [][(pc' = "token" /\ pc # "token") =>
              (pc \in {"idle", "done"} /\ calls' = calls + 1)]_vars
    /\ [][(bearer' # bearer /\ bearer # NoTokenYet) => calls' = calls + 1]_vars

\* three attempts of one call, all with the token the call obtained
C26_Witness ==
    /\ Len(sent) = 3
    /\ bearer = "tok2"
    /\ \A i \in 1..3 : sent[i]["Authorization"] = "Bearer tok2"
    /\ sleeps = <<1, 2>>


\* C30: the call writes into the very mapping the caller passed: from the
\* moment the token is acquired, and after the call whether it returned or
\* raised, the caller's mapping holds the bearer token, the configured
\* partition and the JSON content type, its other entries being as the
\* caller left them; a caller that passed no mapping has nothing modified
C30_CallersMappingWritten ==
    /\ (headersPassed /\ bearer # NoTokenYet) =>
            /\ callersMapping["Authorization"] = "Bearer " \o bearer
            /\ callersMapping["data-partition-id"] = data_partition
            /\ callersMapping["Content-Type"] = "application/json"
            /\ callersMapping["Accept"] = callerHeaders["Accept"]
    /\ (headersPassed /\ bearer = NoTokenYet) => callersMapping = callerHeaders
    /\ ~headersPassed => callersMapping = NoHeaders /\ callerHeaders = NoHeaders

\* a call that raised after three failed attempts left the token in the
\* mapping of a caller that had passed an Authorization entry of its own
C30_Witness ==
    /\ pc = "done"
    /\ result.kind = "OSMCPConnectionError"
    /\ headersPassed
    /\ callerHeaders["Authorization"] = "Bearer caller"
    /\ callersMapping["Authorization"] = "Bearer tok1"
    /\ callersMapping["data-partition-id"] = data_partition

----------------------------------------------------------------------------
(* Claims about termination *)

InCall == pc \in {"token", "send", "inflight", "body", "sleep"}

\* C29: when every token acquisition, attempt and sleep terminates, every
\* call ends by a return or a raise; the loop makes at most three iterations
\* and the raise after the loop (line 113) is never reached, the third
\* iteration always ending in a return or a raise
C29_CallTerminates ==
    /\ [](attempt < max_retries)
    /\ [](pc = "sleep" => attempt < max_retries - 1)
    /\ [](result.label # "Maximum retry attempts reached without success")
    /\ (InCall ~> (pc = "done" /\ result.kind # "none"))

\* a call whose third attempt failed at connection level ended by the raise
\* of line 102
C29_Witness ==
    /\ pc = "done"
    /\ attempt = max_retries - 1
    /\ Len(log) = max_retries
    /\ result.kind = "OSMCPConnectionError"
    /\ result.label = "Connection error: "

----------------------------------------------------------------------------
(* Claims about failures of the provider *)

AzureCallFails == azureTrail' = Append(azureTrail, "fail")

\* C27: in AZURE mode a get_access_token() call that fails, whatever the
\* reason, leaves the cached token as it was before the call; when
\* AZURE_CLIENT_ID is missing the call fails without invoking the token fetch
C27_FailureKeepsCache ==
    /\ [][GetAzureToken => azureCached' = azureCached]_vars
    /\ [][AzureCallFails => /\ azureCached' = azureCached
                            /\ authResult'.kind = "OSMCPAuthError"
                            /\ apc' = "idle"]_vars
    /\ [][(GetAzureToken /\ ~_is_azure_token_valid(azureCached, now)
                         /\ ~Truthy(env.client_id)) =>
              (AzureCallFails /\ fetches' = fetches)]_vars

\* a fetch failed while an earlier token, no longer valid, was cached: the
\* token is still there
C27_Witness ==
    /\ mode = "AZURE"
    /\ azureCached.present
    /\ ~_is_azure_token_valid(azureCached, now)
    /\ Len(azureTrail) >= 2
    /\ azureTrail[Len(azureTrail)] = "fail"
    /\ authResult.kind = "OSMCPAuthError"
    /\ Truthy(env.client_id)


CloudModes == {"AZURE", "AWS", "GCP"}

\* C28: in a cloud mode a get_access_token() call, and so every call that
\* follows close() or that is overlapped by a close() while its backend call
\* runs off the loop, returns a token or raises OSMCPAuthError: no other
\* exception type leaves it
C28_TokenOrAuthErrorAfterClose ==
    mode \in CloudModes => authResult.kind \in {"none", "return", "OSMCPAuthError"}

\* the only call made in GCP mode started a refresh while the credentials
\* were there; close() ran before the refresh ended, and the call raised
\* OSMCPAuthError
C28_Witness ==
    /\ mode = "GCP"
    /\ tokenCalls = 1
    /\ fetches = 1
    /\ apc = "idle"
    /\ ~gcpCreds.present
    /\ authResult.kind = "OSMCPAuthError"
    /\ authResult.msg = "Unexpected GCP authentication error"

----------------------------------------------------------------------------
(* Claims about concurrent token calls *)

\* every call that returned gave a token some completed backend acquisition
\* handed out
ReturnsIssuedTokens ==
    \A c \in Tasks :
        taskResult[c].kind = "return" =>
            /\ taskResult[c].serial # 0
            /\ \E g \in issued : g.token = taskResult[c].serial

\* each cache is empty or holds one token together with its own expiry
Whole(token, expires_on) ==
    \/ token = 0 /\ expires_on = 0
    \/ [token |-> token, expires_on |-> expires_on] \in issued
CacheSlotsWhole ==
    /\ Whole(azureCached.token, azureCached.expires_on)
    /\ Whole(gcpCreds.token, gcpCreds.expires_on)

\* a call fails only when its own backend call failed
FailsOnlyByOwnFetch ==
    \A c \in Tasks :
        taskResult[c].kind \notin {"none", "return"} =>
            /\ taskResult[c].kind = "OSMCPAuthError"
            /\ workerPc[c] = "raised"

\* C23: however concurrent get_access_token() calls interleave, every call
\* that returns yields a whole token of some completed backend acquisition,
\* the cache slot is at all times empty or one whole token-with-expiry
\* value, and no call fails because of another call's refresh
C23_ConcurrentCallsSafe ==
    /\ ReturnsIssuedTokens
    /\ CacheSlotsWhole
    /\ FailsOnlyByOwnFetch

====
